---- MODULE Spec2Model ----
(***************************************************************************)
(* godisplay: the `set` command and its resolution-spec resolver           *)
(* parseResolutionSpec (src/unnamed/part_000), and the display package it  *)
(* calls (internal/display/core.go over bridge.c, src/unnamed/part_001).   *)
(*                                                                         *)
(* Strings are sequences of one-character strings.  A float64 is the exact *)
(* decimal [n |-> numerator, d |-> power of ten]; over the alphabet used   *)
(* here (digits, sign, '.', 'x', '@', 'a') strconv.ParseFloat accepts only *)
(* plain decimals, so no exponent, hex, Inf or NaN form can be written.    *)
(***************************************************************************)
EXTENDS Integers, Sequences, FiniteSets, TLC

VARIABLES
    args,        \* os.Args of `set`: <<display-id, resolution>>
    safe_mode,   \* viper.GetBool("safe_mode")
    osDisplays,  \* CGGetActiveDisplayList: an error, or the display ids
    osModes,     \* CGDisplayCopyAllDisplayModes per display id: NULL, or the modes
    pc,          \* position inside runSet (or inside the resolver harness)
    displayID,   \* runSet local
    displays,    \* runSet local
    modes,       \* runSet local / resolver argument
    modeNumber,  \* runSet local / resolver result
    err,         \* the error runSet (or the resolver) returned, "" for nil
    setCalls,    \* calls of display.SetDisplayMode: <<displayID, modeNumber>>
    cCalls,      \* calls of C.set_display_mode: <<display_id, mode_number>>
    osCommits    \* CGCompleteDisplayConfiguration requests: <<display_id, mode id>>

vars == <<args, safe_mode, osDisplays, osModes, pc, displayID, displays, modes,
          modeNumber, err, setCalls, cCalls, osCommits>>

----------------------------------------------------------------------------
(* Bounds *)

MaxModes == 2

----------------------------------------------------------------------------
(* Strings *)

Digits == {"0", "1", "2", "3", "4", "5", "6", "7", "8", "9"}

DigitVal(c) ==
    CASE c = "0" -> 0 [] c = "1" -> 1 [] c = "2" -> 2 [] c = "3" -> 3
      [] c = "4" -> 4 [] c = "5" -> 5 [] c = "6" -> 6 [] c = "7" -> 7
      [] c = "8" -> 8 [] c = "9" -> 9

HasSuffix(s, suffix) ==
    /\ Len(s) >= Len(suffix)
    /\ SubSeq(s, Len(s) - Len(suffix) + 1, Len(s)) = suffix

TrimSuffix(s, suffix) ==
    IF HasSuffix(s, suffix) THEN SubSeq(s, 1, Len(s) - Len(suffix)) ELSE s

RECURSIVE SplitRec(_, _, _, _)
SplitRec(s, sep, cur, acc) ==
    IF s = <<>> THEN Append(acc, cur)
    ELSE IF Head(s) = sep THEN SplitRec(Tail(s), sep, <<>>, Append(acc, cur))
    ELSE SplitRec(Tail(s), sep, Append(cur, Head(s)), acc)

\* strings.Split with a one-character separator
Split(s, sep) == SplitRec(s, sep, <<>>, <<>>)

RECURSIVE DecimalValue(_, _)
DecimalValue(s, acc) ==
    IF s = <<>> THEN acc ELSE DecimalValue(Tail(s), acc * 10 + DigitVal(Head(s)))

AllDigits(s) == \A i \in 1..Len(s) : s[i] \in Digits

\* strconv.Atoi: optional sign, then one or more decimal digits
Atoi(s) ==
    LET signed == Len(s) > 0 /\ s[1] \in {"-", "+"}
        body   == IF signed THEN Tail(s) ELSE s
    IN  IF Len(body) < 1 \/ ~AllDigits(body) THEN [ok |-> FALSE, val |-> 0]
        ELSE [ok  |-> TRUE,
              val |-> IF signed /\ s[1] = "-" THEN 0 - DecimalValue(body, 0)
                      ELSE DecimalValue(body, 0)]

\* the longest digit string that is below 2^32 whatever its digits
Uint32SafeDigits == 9

\* strconv.ParseUint(s, 10, 32): one or more decimal digits, no sign, 32 bits.
\* A value of ten or more digits is reported out of range: the model's
\* integers are narrower than uint32, and no display id here is that long.
ParseUint(s) ==
    IF Len(s) < 1 \/ ~AllDigits(s) THEN [ok |-> FALSE, val |-> 0]
    ELSE IF Len(s) > Uint32SafeDigits THEN [ok |-> FALSE, val |-> 0]
    ELSE [ok |-> TRUE, val |-> DecimalValue(s, 0)]

----------------------------------------------------------------------------
(* float64 as an exact decimal *)

Float(n, d) == [n |-> n, d |-> d]

FloatZero == Float(0, 1)

\* a > b
FloatGt(a, b) == a.n * b.d > b.n * a.d

\* Go's int(f): truncation toward zero
FloatToInt(f) == IF f.n >= 0 THEN f.n \div f.d ELSE 0 - ((0 - f.n) \div f.d)

RECURSIVE Pow10(_)
Pow10(k) == IF k = 0 THEN 1 ELSE 10 * Pow10(k - 1)

\* strconv.ParseFloat(s, 64) on decimal text: [sign] digits [. digits]
ParseFloat(s) ==
    LET signed == Len(s) > 0 /\ s[1] \in {"-", "+"}
        body   == IF signed THEN Tail(s) ELSE s
        dots   == {i \in 1..Len(body) : body[i] = "."}
        dot    == IF dots = {} THEN Len(body) + 1
                  ELSE CHOOSE i \in dots : \A j \in dots : i <= j
        intp   == SubSeq(body, 1, dot - 1)
        frac   == SubSeq(body, dot + 1, Len(body))
        mant   == DecimalValue(intp \o frac, 0)
    IN  IF ~AllDigits(intp) \/ ~AllDigits(frac) \/ Len(intp) + Len(frac) < 1
        THEN [ok |-> FALSE, val |-> FloatZero]
        ELSE [ok  |-> TRUE,
              val |-> Float(IF signed /\ s[1] = "-" THEN 0 - mant ELSE mant,
                            Pow10(Len(frac)))]

----------------------------------------------------------------------------
(* display.Mode and the resolver parseResolutionSpec *)

\* what CoreGraphics reports for one CGDisplayModeRef
OsMode(pw, ph, w, h, rate, id) ==
    [pixel_width |-> pw, pixel_height |-> ph, width |-> w, height |-> h,
     refresh_rate |-> rate, mode_id |-> id]

\* part_001:122-138 get_display_modes fills a DisplayMode (is_hidpi from the widths),
\* core.go:82-91 GetDisplayModes copies it into a display.Mode
Mode(o) ==
    [PixelWidth |-> o.pixel_width, PixelHeight |-> o.pixel_height,
     Width |-> o.width, Height |-> o.height, RefreshRate |-> o.refresh_rate,
     IsHiDPI |-> o.pixel_width > o.width, ModeNumber |-> o.mode_id]

\* core.go:78-92, the whole list converted in order
ConvertModes(os) == [i \in 1..Len(os) |-> Mode(os[i])]

Ok(n) == [err |-> "", val |-> n]
Fail(e) == [err |-> e, val |-> 0]

\* the bare mode number returned without looking it up in the list
LookupModeNumber_Unchecked(modeNum, ms) == Ok(modeNum)

\* part_000:103-108, the bare mode number is validated against the list
LookupModeNumber(modeNum, ms) ==
    IF \E i \in 1..Len(ms) : ms[i].ModeNumber = modeNum
    THEN Ok(modeNum) ELSE Fail("ModeNotFound")

\* the logical (point) size compared in place of the pixel size
ResolutionMatches_Logical(m, width, height) ==
    ~(m.Width # width \/ m.Height # height)

\* only the pixel width compared
ResolutionMatches_WidthOnly(m, width, height) == ~(m.PixelWidth # width)

\* part_000:160
ResolutionMatches(m, width, height) ==
    ~(m.PixelWidth # width \/ m.PixelHeight # height)

\* the HiDPI requirement dropped
HiDPIAccepted_Always(m, wantHiDPI) == TRUE

\* part_000:165
HiDPIAccepted(m, wantHiDPI) == ~(wantHiDPI /\ ~m.IsHiDPI)

\* refresh rates compared without truncation
RefreshMatches_Untruncated(m, refreshRate) ==
    ~FloatGt(m.RefreshRate, refreshRate) /\ ~FloatGt(refreshRate, m.RefreshRate)

\* part_000:171
RefreshMatches(m, refreshRate) ==
    ~(FloatToInt(m.RefreshRate) # FloatToInt(refreshRate))

\* >= in place of >: the last of the equal candidates wins
BetterMode_LastWins(ms, i, best) ==
    best = 0 \/ ~FloatGt(ms[best].RefreshRate, ms[i].RefreshRate)

\* part_000:179, best = 0 stands for bestMode == nil
BetterMode(ms, i, best) ==
    best = 0 \/ FloatGt(ms[i].RefreshRate, ms[best].RefreshRate)

\* part_000:156-188, the scan from index i on with bestMode = best
RECURSIVE FindMode(_, _, _, _, _, _, _)
FindMode(ms, i, width, height, refreshRate, wantHiDPI, best) ==
    IF i > Len(ms)
    THEN IF best = 0 THEN Fail("NoMatchingMode") ELSE Ok(ms[best].ModeNumber)
    ELSE IF ~ResolutionMatches(ms[i], width, height)
    THEN FindMode(ms, i + 1, width, height, refreshRate, wantHiDPI, best)
    ELSE IF ~HiDPIAccepted(ms[i], wantHiDPI)
    THEN FindMode(ms, i + 1, width, height, refreshRate, wantHiDPI, best)
    ELSE IF FloatGt(refreshRate, FloatZero)
    THEN IF ~RefreshMatches(ms[i], refreshRate)
         THEN FindMode(ms, i + 1, width, height, refreshRate, wantHiDPI, best)
         ELSE Ok(ms[i].ModeNumber)
    ELSE IF BetterMode(ms, i, best)
    THEN FindMode(ms, i + 1, width, height, refreshRate, wantHiDPI, i)
    ELSE FindMode(ms, i + 1, width, height, refreshRate, wantHiDPI, best)

\* one '@' too many let through
TooManyParts_OffByOne(parts) == Len(parts) > 3

\* part_000:124, strings.Split(spec, "@") may yield at most two parts
TooManyParts(parts) == Len(parts) > 2

\* part_000:111-152, the structured branch up to the scan
ParseStructured(spec, ms) ==
    LET wantHiDPI == HasSuffix(spec, <<"@", "2", "x">>)
        rest      == TrimSuffix(spec, <<"@", "2", "x">>)
        parts     == Split(rest, "@")
        r         == IF Len(parts) = 2 THEN ParseFloat(parts[2])
                     ELSE [ok |-> TRUE, val |-> FloatZero]
        resParts  == Split(parts[1], "x")
        w         == Atoi(resParts[1])
        h         == Atoi(resParts[2])
    IN  IF TooManyParts(parts) THEN Fail("InvalidFormat")
        ELSE IF ~r.ok THEN Fail("InvalidRefreshRate")
        ELSE IF Len(resParts) # 2 THEN Fail("InvalidFormat")
        ELSE IF ~w.ok THEN Fail("InvalidWidth")
        ELSE IF ~h.ok THEN Fail("InvalidHeight")
        ELSE FindMode(ms, 1, w.val, h.val, r.val, wantHiDPI, 0)

\* part_000:99-189
parseResolutionSpec(spec, ms) ==
    IF Atoi(spec).ok THEN LookupModeNumber(Atoi(spec).val, ms)
    ELSE ParseStructured(spec, ms)

----------------------------------------------------------------------------
(* Inputs of the resolver *)

\* the first position of a scan that stops at its first hit
Least(S) == CHOOSE i \in S : \A j \in S : i <= j

\* what a CoreGraphics query hands back: NULL / an error, or a list
Null == [ok |-> FALSE, list |-> <<>>]
Array(l) == [ok |-> TRUE, list |-> l]

DisplayIds == {1, 2, 3}

At == <<"@">>
X == <<"x">>
T60 == <<"6", "0">>
T120 == <<"1", "2", "0">>
T599 == <<"5", "9", "9">>
T600 == <<"6", "0", "0">>
T799 == <<"7", "9", "9">>
T800 == <<"8", "0", "0">>
T1200 == <<"1", "2", "0", "0">>
T1600 == <<"1", "6", "0", "0">>
HiDPISuffix == <<"@", "2", "x">>

\* the text before the first '@': mode numbers, resolutions and malformed ones
ResTexts ==
    { <<>>, <<"a">>, <<"1">>, <<"1", "2">>, <<"-", "1">>, <<"7">>,
      T800 \o X \o T600, T1600 \o X \o T1200, T800 \o X \o T1200,
      <<"-">> \o T800 \o X \o T600, T800 \o X \o <<"-">> \o T600,
      <<"a">> \o X \o T600, T800 \o X \o <<"a">>,
      T800 \o X \o T600 \o X \o T60 }

\* the refresh segment
RefTexts ==
    { <<>>, At \o T60, At \o T60 \o <<".", "5">>, At \o T120, At \o <<"0">>,
      At \o <<"-">> \o T60, At \o <<"a">>, At \o T60 \o At \o T60 }

SufTexts == { <<>>, HiDPISuffix }

Specs == { a \o b \o c : a \in ResTexts, b \in RefTexts, c \in SufTexts }

Rates == { Float(60, 1), Float(605, 10), Float(120, 1) }

\* pixel width, pixel height, logical width, logical height
Shapes ==
    { <<800, 600, 800, 600>>, <<1600, 1200, 800, 600>>,
      <<1600, 1200, 1600, 1200>> }

\* mode identifiers by list position; identifiers are unique within a list
\* and IODisplayModeID is a signed 32-bit value
IdLayouts == { <<1, 12, -1, 3, 5>>, <<-1, 3, 12, 1, 5>> }

OsModeLists(shapes, rates, maxLen) ==
    UNION { { [i \in 1..k |-> OsMode(sh[i][1], sh[i][2], sh[i][3], sh[i][4],
                                      rt[i], ids[i])] :
              sh \in [1..k -> shapes], rt \in [1..k -> rates], ids \in IdLayouts }
            : k \in 0..maxLen }

ModeLists == { ConvertModes(os) : os \in OsModeLists(Shapes, Rates, MaxModes) }

----------------------------------------------------------------------------
(* The resolver on its own: one call on an arbitrary spec and mode list *)

InitResolve ==
    /\ args \in { << <<"1">>, s >> : s \in Specs }
    /\ modes \in ModeLists
    /\ pc = "resolve"
    /\ safe_mode = TRUE
    /\ osDisplays = Array(<<1>>)
    /\ osModes = [d \in DisplayIds |-> Null]
    /\ displayID = 1
    /\ displays = <<1>>
    /\ modeNumber = 0
    /\ err = ""
    /\ setCalls = <<>>
    /\ cCalls = <<>>
    /\ osCommits = <<>>

\* the scan done on the list reordered in place
Resolve_Reorders ==
    /\ pc = "resolve"
    /\ LET ms == [i \in 1..Len(modes) |-> modes[Len(modes) + 1 - i]]
           r  == parseResolutionSpec(args[2], ms)
       IN  /\ modes' = ms
           /\ modeNumber' = r.val
           /\ err' = r.err
    /\ pc' = "resolved"
    /\ UNCHANGED <<args, safe_mode, osDisplays, osModes, displayID, displays,
                   setCalls, cCalls, osCommits>>

Resolve ==
    /\ pc = "resolve"
    /\ LET r == parseResolutionSpec(args[2], modes)
       IN  /\ modeNumber' = r.val
           /\ err' = r.err
    /\ pc' = "resolved"
    /\ UNCHANGED <<args, safe_mode, osDisplays, osModes, displayID, displays,
                   modes, setCalls, cCalls, osCommits>>

\* a second call with the same spec on the list the first call left behind;
\* the function reads modes[i] through a pointer and never writes it
Repeat ==
    /\ pc = "resolved"
    /\ LET r == parseResolutionSpec(args[2], modes)
       IN  /\ modeNumber' = r.val
           /\ err' = r.err
    /\ pc' = "repeated"
    /\ UNCHANGED <<args, safe_mode, osDisplays, osModes, displayID, displays,
                   modes, setCalls, cCalls, osCommits>>

NextResolve == Resolve \/ Repeat

SpecResolve == InitResolve /\ [][NextResolve]_vars

----------------------------------------------------------------------------
(* The grammar of section 6, read off the text of the spec string *)

TheSpec == args[2]
Resolved == pc = "resolved"

CountOf(s, c) == Cardinality({ i \in 1..Len(s) : s[i] = c })

FirstIndex(s, c) ==
    IF CountOf(s, c) = 0 THEN Len(s) + 1
    ELSE CHOOSE i \in 1..Len(s) : s[i] = c /\ \A j \in 1..(i - 1) : s[j] # c

Before(s, c) == SubSeq(s, 1, FirstIndex(s, c) - 1)
After(s, c) == SubSeq(s, FirstIndex(s, c) + 1, Len(s))

IsIntegerText(t) ==
    \/ Len(t) >= 1 /\ AllDigits(t)
    \/ Len(t) >= 2 /\ t[1] \in {"-", "+"} /\ AllDigits(Tail(t))

IsNaturalText(t) == Len(t) >= 1 /\ AllDigits(t)

IsDecimalText(t) ==
    /\ \A i \in 1..Len(t) : t[i] \in Digits \cup {"."}
    /\ CountOf(t, ".") <= 1
    /\ Len(t) > CountOf(t, ".")

WantsHiDPI(s) == HasSuffix(s, HiDPISuffix)
Body(s) == IF WantsHiDPI(s) THEN SubSeq(s, 1, Len(s) - 3) ELSE s
HasRefresh(s) == CountOf(Body(s), "@") = 1
ResText(s) == Before(Body(s), "@")
RefText(s) == After(Body(s), "@")
WidthText(s) == Before(ResText(s), "x")
HeightText(s) == After(ResText(s), "x")

\* resolution ["@" refresh] ["@2x"] with non-negative numbers
WellFormed(s) ==
    /\ CountOf(Body(s), "@") <= 1
    /\ CountOf(ResText(s), "x") = 1
    /\ IsNaturalText(WidthText(s))
    /\ IsNaturalText(HeightText(s))
    /\ HasRefresh(s) => IsDecimalText(RefText(s))

SpecWidth(s) == DecimalValue(WidthText(s), 0)
SpecHeight(s) == DecimalValue(HeightText(s), 0)
SpecRefresh(s) == ParseFloat(RefText(s)).val
RefreshRequested(s) == HasRefresh(s) /\ FloatGt(SpecRefresh(s), FloatZero)

\* positions of the modes of the requested pixel size (HiDPI ones under @2x)
SizeCandidates(s, ms) ==
    { i \in 1..Len(ms) :
        /\ ms[i].PixelWidth = SpecWidth(s)
        /\ ms[i].PixelHeight = SpecHeight(s)
        /\ WantsHiDPI(s) => ms[i].IsHiDPI }

\* ... that also have the requested refresh rate, both truncated
RateCandidates(s, ms) ==
    { i \in SizeCandidates(s, ms) :
        FloatToInt(ms[i].RefreshRate) = FloatToInt(SpecRefresh(s)) }

\* positions that satisfy every constraint the spec states
Satisfying(s, ms) ==
    IF RefreshRequested(s) THEN RateCandidates(s, ms) ELSE SizeCandidates(s, ms)

----------------------------------------------------------------------------
(* Claims about the resolver *)

\* C1: a spec that parses entirely as an integer n resolves to n when some
\* mode of the list has identifier n and fails with ModeNotFound otherwise;
\* it is never read as a WIDTHxHEIGHT spec.
C1_BareInteger ==
    (Resolved /\ IsIntegerText(TheSpec)) =>
        LET n == Atoi(TheSpec).val
        IN  IF \E i \in 1..Len(modes) : modes[i].ModeNumber = n
            THEN err = "" /\ modeNumber = n
            ELSE err = "ModeNotFound"

C1_Witness ==
    /\ Resolved /\ IsIntegerText(TheSpec)
    /\ Len(modes) = 2 /\ modes[2].ModeNumber = 12
    /\ err = "" /\ modeNumber = 12

\* C2: a well-formed WxH spec (with or without @2x) that gives no refresh
\* rate resolves to the candidate of the highest refresh rate, the first of
\* them in list order when several share that rate.
C2_HighestRefresh ==
    (Resolved /\ WellFormed(TheSpec) /\ ~HasRefresh(TheSpec)
       /\ SizeCandidates(TheSpec, modes) # {}) =>
        LET cand == SizeCandidates(TheSpec, modes)
            top  == { i \in cand : \A j \in cand :
                        ~FloatGt(modes[j].RefreshRate, modes[i].RefreshRate) }
        IN  err = "" /\ modeNumber = modes[Least(top)].ModeNumber

C2_Witness ==
    /\ Resolved /\ WellFormed(TheSpec) /\ ~HasRefresh(TheSpec)
    /\ Len(modes) = 2
    /\ SizeCandidates(TheSpec, modes) = {1, 2}
    /\ ~FloatGt(modes[1].RefreshRate, modes[2].RefreshRate)
    /\ ~FloatGt(modes[2].RefreshRate, modes[1].RefreshRate)
    /\ err = "" /\ modeNumber = modes[1].ModeNumber

\* C3: a well-formed WxH@R spec with R > 0 resolves to the first mode in
\* list order of that pixel size (HiDPI under @2x) whose truncated refresh
\* rate equals truncated R; no other mode is ever returned.
C3_FirstExactRefresh ==
    (Resolved /\ WellFormed(TheSpec) /\ RefreshRequested(TheSpec)) =>
        LET cand == RateCandidates(TheSpec, modes)
        IN  /\ cand # {} => err = "" /\ modeNumber = modes[Least(cand)].ModeNumber
            /\ err = "" => cand # {}

C3_Witness ==
    /\ Resolved /\ WellFormed(TheSpec) /\ RefreshRequested(TheSpec)
    /\ Len(modes) = 2
    /\ RateCandidates(TheSpec, modes) = {1, 2}
    /\ FloatGt(modes[2].RefreshRate, modes[1].RefreshRate)
    /\ err = "" /\ modeNumber = modes[1].ModeNumber

\* C4: under a spec ending in @2x every returned identifier is that of a
\* HiDPI mode, and when the list holds modes of the requested pixel size
\* but no HiDPI one the call fails with NoMatchingMode.
C4_HiDPIOnly ==
    (Resolved /\ WantsHiDPI(TheSpec)) =>
        /\ err = "" =>
             \E i \in 1..Len(modes) :
                 modes[i].ModeNumber = modeNumber /\ modes[i].IsHiDPI
        /\ ( /\ WellFormed(TheSpec)
             /\ \E i \in 1..Len(modes) :
                    /\ modes[i].PixelWidth = SpecWidth(TheSpec)
                    /\ modes[i].PixelHeight = SpecHeight(TheSpec)
             /\ \A i \in 1..Len(modes) :
                    ( /\ modes[i].PixelWidth = SpecWidth(TheSpec)
                      /\ modes[i].PixelHeight = SpecHeight(TheSpec) )
                    => ~modes[i].IsHiDPI )
           => err = "NoMatchingMode"

C4_Witness ==
    /\ Resolved /\ WantsHiDPI(TheSpec) /\ WellFormed(TheSpec)
    /\ Len(modes) = 2
    /\ modes[1].PixelWidth = SpecWidth(TheSpec) /\ ~modes[1].IsHiDPI
    /\ modes[2].PixelWidth = SpecWidth(TheSpec) /\ modes[2].IsHiDPI
    /\ err = "" /\ modeNumber = modes[2].ModeNumber

\* C5: a well-formed structured spec fails with NoMatchingMode exactly when
\* no mode satisfies all of its constraints; there is no fallback to
\* another refresh rate, and an empty list always yields a failure.
C5_NoMatchingMode ==
    (Resolved /\ WellFormed(TheSpec)) =>
        /\ err = "NoMatchingMode" <=> Satisfying(TheSpec, modes) = {}
        /\ Satisfying(TheSpec, modes) # {} => err = ""
        /\ modes = <<>> => err # ""

C5_Witness ==
    /\ Resolved /\ WellFormed(TheSpec) /\ RefreshRequested(TheSpec)
    /\ SizeCandidates(TheSpec, modes) # {}
    /\ RateCandidates(TheSpec, modes) = {}
    /\ err = "NoMatchingMode"

\* C6 as stated: for a non-integer spec, after one trailing @2x is stripped,
\* more than one '@' in the remainder fails with InvalidFormat, and a part
\* before the '@' that does not split on 'x' into exactly two parts fails
\* with InvalidFormat, whatever the mode list.
C6_Original ==
    (Resolved /\ ~IsIntegerText(TheSpec)) =>
        /\ CountOf(Body(TheSpec), "@") > 1 => err = "InvalidFormat"
        /\ CountOf(ResText(TheSpec), "x") # 1 => err = "InvalidFormat"

\* C6 amended: as C6, except that when the remainder has exactly one '@'
\* and the text after it does not parse as a floating-point number the
\* call fails with InvalidRefreshRate before the 'x' split is looked at.
C6_InvalidFormat ==
    (Resolved /\ ~IsIntegerText(TheSpec)) =>
        /\ CountOf(Body(TheSpec), "@") > 1 => err = "InvalidFormat"
        /\ CountOf(ResText(TheSpec), "x") # 1 =>
             IF HasRefresh(TheSpec) /\ ~ParseFloat(RefText(TheSpec)).ok
             THEN err = "InvalidRefreshRate"
             ELSE err = "InvalidFormat"

C6_Witness ==
    /\ Resolved /\ ~IsIntegerText(TheSpec)
    /\ CountOf(Body(TheSpec), "@") = 2
    /\ CountOf(ResText(TheSpec), "x") = 1
    /\ WantsHiDPI(TheSpec)
    /\ Len(modes) = 2
    /\ err = "InvalidFormat"

\* C7: in a structured spec (at most one '@' in the remainder, one 'x'
\* before it) a refresh segment that is not a non-negative decimal fails
\* with InvalidRefreshRate, else a width that is not a non-negative integer
\* fails with InvalidWidth, else such a height fails with InvalidHeight;
\* a spec with a non-numeric or negative component never resolves.
C7_NonNegativeComponents ==
    (Resolved /\ ~IsIntegerText(TheSpec)
       /\ CountOf(Body(TheSpec), "@") <= 1
       /\ CountOf(ResText(TheSpec), "x") = 1) =>
        IF HasRefresh(TheSpec) /\ ~IsDecimalText(RefText(TheSpec))
        THEN err = "InvalidRefreshRate"
        ELSE IF ~IsNaturalText(WidthText(TheSpec)) THEN err = "InvalidWidth"
        ELSE IF ~IsNaturalText(HeightText(TheSpec)) THEN err = "InvalidHeight"
        ELSE TRUE

----------------------------------------------------------------------------
(* The `set` command: runSet, one step per call it makes *)

\* args[0]: attached and unattached display ids, and text that is no id
DisplayArgs == { <<"1">>, <<"2">>, <<"3">>, <<"a">> }

\* args[1]
SetSpecs ==
    { <<"1">>, <<"1", "2">>, <<"-", "1">>, <<"7">>, <<"a">>,
      T800 \o X \o T600, T799 \o X \o T600, T800 \o X \o T599,
      T1600 \o X \o T1200 \o HiDPISuffix }

\* modes around the safe-mode floor
SetShapes ==
    { <<800, 600, 800, 600>>, <<799, 600, 799, 600>>, <<800, 599, 800, 599>>,
      <<1600, 1200, 800, 600>> }

SetRates == { Float(60, 1) }

\* what display 2 offers when it is attached
SecondCatalog == << OsMode(1600, 1200, 1600, 1200, Float(60, 1), 3) >>

\* CGError values CoreGraphics hands back: kCGErrorFailure,
\* kCGErrorIllegalArgument, kCGErrorCannotComplete
CGErrors == {1000, 1001, 1004}

Attached(d) ==
    osDisplays.ok /\ \E i \in 1..Len(osDisplays.list) : osDisplays.list[i] = d

Init ==
    /\ args \in { <<a, s>> : a \in DisplayArgs, s \in SetSpecs }
    /\ safe_mode \in BOOLEAN
    /\ osDisplays \in { Null, Array(<<>>), Array(<<1>>), Array(<<2, 1>>) }
    /\ \E first \in { Array(l) : l \in OsModeLists(SetShapes, SetRates, MaxModes) }
                     \cup {Null} :
         osModes = [d \in DisplayIds |->
                      IF ~Attached(d) THEN Null
                      ELSE IF d = 1 THEN first ELSE Array(SecondCatalog)]
    /\ pc = "parse_id"
    /\ displayID = 0
    /\ displays = <<>>
    /\ modes = <<>>
    /\ modeNumber = 0
    /\ err = ""
    /\ setCalls = <<>>
    /\ cCalls = <<>>
    /\ osCommits = <<>>

\* return fmt.Errorf(...)
Exit(e) == pc' = "exit" /\ err' = e

\* part_000:38-41
ParseDisplayID ==
    /\ pc = "parse_id"
    /\ LET id == ParseUint(args[1])
       IN  IF ~id.ok
           THEN Exit("InvalidDisplayID") /\ UNCHANGED displayID
           ELSE displayID' = id.val /\ pc' = "get_displays" /\ UNCHANGED err
    /\ UNCHANGED <<args, safe_mode, osDisplays, osModes, displays, modes,
                   modeNumber, setCalls, cCalls, osCommits>>

\* part_000:44-47 over core.go:36-67 and part_001:32-109.  With no display
\* calloc(0, ...) may return NULL (core.go:39) or a pointer (core.go:42).
GetDisplays ==
    /\ pc = "get_displays"
    /\ IF ~osDisplays.ok THEN Exit("EnumerationError") /\ UNCHANGED displays
       ELSE IF Len(osDisplays.list) = 0
       THEN (\E e \in {"EnumerationError", "NoDisplaysFound"} : Exit(e))
            /\ UNCHANGED displays
       ELSE displays' = osDisplays.list /\ pc' = "find_display" /\ UNCHANGED err
    /\ UNCHANGED <<args, safe_mode, osDisplays, osModes, displayID, modes,
                   modeNumber, setCalls, cCalls, osCommits>>

\* part_000:49-59
FindDisplay ==
    /\ pc = "find_display"
    /\ IF \E i \in 1..Len(displays) : displays[i] = displayID
       THEN pc' = "get_modes" /\ UNCHANGED err
       ELSE Exit("InvalidDisplay")
    /\ UNCHANGED <<args, safe_mode, osDisplays, osModes, displayID, displays,
                   modes, modeNumber, setCalls, cCalls, osCommits>>

\* part_000:62-65 over core.go:70-95 and part_001:112-143.  calloc(0, ...)
\* for an empty mode array may return NULL or a pointer: both are outcomes.
GetDisplayModes ==
    /\ pc = "get_modes"
    /\ \/ /\ ~osModes[displayID].ok \/ osModes[displayID].list = <<>>
          /\ Exit("EnumerationError")
          /\ UNCHANGED modes
       \/ /\ osModes[displayID].ok
          /\ modes' = ConvertModes(osModes[displayID].list)
          /\ pc' = "resolve_spec"
          /\ UNCHANGED err
    /\ UNCHANGED <<args, safe_mode, osDisplays, osModes, displayID, displays,
                   modeNumber, setCalls, cCalls, osCommits>>

\* part_000:68-71
ResolveSpec ==
    /\ pc = "resolve_spec"
    /\ LET r == parseResolutionSpec(args[2], modes)
       IN  /\ modeNumber' = r.val
           /\ IF r.err # "" THEN Exit(r.err)
              ELSE pc' = "safety" /\ UNCHANGED err
    /\ UNCHANGED <<args, safe_mode, osDisplays, osModes, displayID, displays,
                   modes, setCalls, cCalls, osCommits>>

\* m.PixelHeight tested with && in place of ||
BelowFloor_Both(m) == m.PixelWidth < 800 /\ m.PixelHeight < 600

\* part_000:77
BelowFloor(m) == m.PixelWidth < 800 \/ m.PixelHeight < 600

\* part_000:75-82, the first mode of that number decides
RECURSIVE SafetyRejects(_, _, _)
SafetyRejects(ms, i, n) ==
    IF i > Len(ms) THEN FALSE
    ELSE IF ms[i].ModeNumber = n THEN BelowFloor(ms[i])
    ELSE SafetyRejects(ms, i + 1, n)

\* part_000:74-83
SafetyCheck ==
    /\ pc = "safety"
    /\ IF safe_mode /\ SafetyRejects(modes, 1, modeNumber)
       THEN Exit("PolicyRejected")
       ELSE pc' = "apply" /\ UNCHANGED err
    /\ UNCHANGED <<args, safe_mode, osDisplays, osModes, displayID, displays,
                   modes, modeNumber, setCalls, cCalls, osCommits>>

\* part_001:146-184: the outcomes of one call, as the result code and the
\* mode CoreGraphics was asked to commit (none when it never got that far)
set_display_mode(display_id, mode_number) ==
    LET all   == osModes[display_id]
        found == { i \in 1..Len(all.list) : all.list[i].mode_id = mode_number }
        asked == << <<display_id, all.list[Least(found)].mode_id>> >>
    IN  IF ~all.ok \/ found = {} THEN { [result |-> -1, commits |-> <<>>] }
        ELSE { [result |-> e, commits |-> <<>>] : e \in CGErrors }
               \cup { [result |-> e, commits |-> asked] : e \in CGErrors \cup {0} }

\* core.go:104-116
SetDisplayModeError(result) ==
    CASE result = 0 -> ""
      [] result = -1 -> "ModeNotFound"
      [] result = 1000 -> "InvalidDisplay"
      [] result = 1001 -> "PermissionDenied"
      [] OTHER -> "PlatformError"

\* a failed attempt tried once more
AfterApply_Retry(e) ==
    IF e # "" /\ Len(setCalls) < 1 THEN pc' = "apply" /\ UNCHANGED err
    ELSE IF e # "" THEN Exit(e)
    ELSE pc' = "exit" /\ UNCHANGED err

\* part_000:91-96
AfterApply(e) == IF e # "" THEN Exit(e) ELSE pc' = "exit" /\ UNCHANGED err

\* part_000:91-96 over core.go:98-117
ApplyMode ==
    /\ pc = "apply"
    /\ setCalls' = Append(setCalls, <<displayID, modeNumber>>)
    /\ IF modeNumber < 0
       THEN AfterApply("InvalidModeNumber") /\ UNCHANGED <<cCalls, osCommits>>
       ELSE \E out \in set_display_mode(displayID, modeNumber) :
              /\ cCalls' = Append(cCalls, <<displayID, modeNumber>>)
              /\ osCommits' = osCommits \o out.commits
              /\ AfterApply(SetDisplayModeError(out.result))
    /\ UNCHANGED <<args, safe_mode, osDisplays, osModes, displayID, displays,
                   modes, modeNumber>>

Next ==
    \/ ParseDisplayID
    \/ GetDisplays
    \/ FindDisplay
    \/ GetDisplayModes
    \/ ResolveSpec
    \/ SafetyCheck
    \/ ApplyMode

Spec == Init /\ [][Next]_vars

----------------------------------------------------------------------------
(* Claims about the set command *)

RequestedDisplay == ParseUint(args[1]).val

\* the display was found and its modes were listed
ModesListed ==
    /\ ParseUint(args[1]).ok
    /\ Attached(RequestedDisplay)
    /\ osModes[RequestedDisplay].ok
    /\ modes = ConvertModes(osModes[RequestedDisplay].list)

\* ... and the spec resolved against them
SpecResolved == ModesListed /\ parseResolutionSpec(args[2], modes).err = ""

ResolvedNumber == parseResolutionSpec(args[2], modes).val

\* the resolved mode lies under the 800x600 floor
UnderFloor ==
    \E i \in 1..Len(modes) :
        /\ modes[i].ModeNumber = ResolvedNumber
        /\ (modes[i].PixelWidth < 800 \/ modes[i].PixelHeight < 600)

\* C8: with safe mode on, SetDisplayMode is never invoked for a mode below
\* 800 pixels wide or 600 pixels high; such an invocation ends with
\* PolicyRejected after resolution and before apply, for a bare mode number
\* and for a structured spec alike.
C8_SafeModeGate ==
    safe_mode =>
        /\ \A k \in 1..Len(setCalls) : \A i \in 1..Len(modes) :
              modes[i].ModeNumber = setCalls[k][2] =>
                  modes[i].PixelWidth >= 800 /\ modes[i].PixelHeight >= 600
        /\ (pc = "exit" /\ SpecResolved /\ UnderFloor) =>
              err = "PolicyRejected" /\ setCalls = <<>> /\ cCalls = <<>>

C8_Witness ==
    /\ safe_mode /\ pc = "exit" /\ SpecResolved /\ UnderFloor
    /\ CountOf(args[2], "x") = 1
    /\ err = "PolicyRejected" /\ setCalls = <<>>

\* C9: one invocation calls SetDisplayMode at most once, and only after
\* display enumeration, the display lookup, the mode listing, the
\* resolution and the safe-mode gate have all succeeded; after a failure
\* (a failed SetDisplayMode included) no call follows and the invocation
\* ends with an error.
C9_SingleAttempt ==
    /\ [](/\ Len(setCalls) <= 1
          /\ setCalls # <<>> =>
               /\ SpecResolved
               /\ ~(safe_mode /\ UnderFloor)
               /\ setCalls = << <<RequestedDisplay, ResolvedNumber>> >>
               /\ pc = "exit"
          /\ err # "" => pc = "exit"
          /\ (pc = "exit" /\ err = "") =>
               /\ setCalls # <<>>
               /\ osCommits = setCalls)
    /\ [][err # "" => UNCHANGED <<setCalls, cCalls, osCommits, err>>]_vars

C9_Witness ==
    /\ pc = "exit" /\ err = "PermissionDenied"
    /\ Len(setCalls) = 1 /\ Len(cCalls) = 1

\* C10: whenever the display is found, the spec resolves to m and the
\* safe-mode gate lets it through, the OS layer is asked for exactly mode m
\* on exactly that display, whatever the value of m (negative included).
C10_AppliesResolvedMode ==
    (pc = "exit" /\ SpecResolved /\ ~(safe_mode /\ UnderFloor)) =>
        cCalls = << <<RequestedDisplay, ResolvedNumber>> >>

----------------------------------------------------------------------------
(* display.SetDisplayMode on its own: one call on an arbitrary display id *)
(* and mode number, whatever the displays attached                        *)

\* mode numbers a caller may pass: listed ones and ones no display lists
ApplyNumbers == {-1, 1, 3, 7, 12}

InitApply ==
    /\ osDisplays \in { Null, Array(<<>>), Array(<<1>>), Array(<<2, 1>>) }
    /\ \E first \in { Array(l) : l \in OsModeLists(SetShapes, SetRates, MaxModes) }
                     \cup {Null} :
         osModes = [d \in DisplayIds |->
                      IF ~Attached(d) THEN Null
                      ELSE IF d = 1 THEN first ELSE Array(SecondCatalog)]
    /\ displayID \in DisplayIds
    /\ modeNumber \in ApplyNumbers
    /\ pc = "apply"
    /\ args = << <<"1">>, <<"1">> >>
    /\ safe_mode = FALSE
    /\ displays = <<>>
    /\ modes = <<>>
    /\ err = ""
    /\ setCalls = <<>>
    /\ cCalls = <<>>
    /\ osCommits = <<>>

NextApply == ApplyMode

SpecApply == InitApply /\ [][NextApply]_vars

\* the display id is one the OS knows
KnownDisplay == Attached(displayID) /\ osModes[displayID].ok

\* the mode number is in that display's mode list
ListedMode ==
    \E i \in 1..Len(osModes[displayID].list) :
        osModes[displayID].list[i].mode_id = modeNumber

\* C11: SetDisplayMode classifies its failure by cause: for a mode number
\* that passes its own sign check, a display id unknown to the OS yields
\* InvalidDisplay, a known display with a mode id absent from its mode list
\* yields ModeNotFound, and success is returned only when the OS accepted
\* the mode.
C11_FailureByCause ==
    (pc = "exit" /\ setCalls # <<>> /\ modeNumber >= 0) =>
        /\ ~KnownDisplay => err = "InvalidDisplay"
        /\ (KnownDisplay /\ ~ListedMode) => err = "ModeNotFound"
        /\ err = "" => osCommits = << <<displayID, modeNumber>> >>

----------------------------------------------------------------------------
(* Further claims about the resolver *)

C13_ListedPixelMatch ==
    (Resolved /\ err = "") =>
        /\ \E i \in 1..Len(modes) : modes[i].ModeNumber = modeNumber
        /\ ~IsIntegerText(TheSpec) =>
             \A i \in 1..Len(modes) :
                 modes[i].ModeNumber = modeNumber =>
                     /\ modes[i].PixelWidth = Atoi(WidthText(TheSpec)).val
                     /\ modes[i].PixelHeight = Atoi(HeightText(TheSpec)).val

C13_Witness ==
    /\ Resolved /\ err = "" /\ WellFormed(TheSpec)
    /\ Len(modes) = 2
    /\ modes[1].Width = SpecWidth(TheSpec)
    /\ modes[1].Height = SpecHeight(TheSpec)
    /\ modes[1].PixelWidth # SpecWidth(TheSpec)
    /\ modeNumber = modes[2].ModeNumber

====
